---- MODULE Spec2Model ----
(***************************************************************************)
(* EcoBin reward tokens: the Flask application of src/app.py as a state    *)
(* machine.  The database holds the user and reward_token tables; every    *)
(* HTTP request runs in its own SQLAlchemy session, so a redemption is a   *)
(* sequence of separate steps (load the user, SELECT the reward, change    *)
(* the session's objects, COMMIT) that interleave with other requests.     *)
(* The intake agent of src/arduino_listener.py is a second process: a      *)
(* loop that reads the serial line, takes a picture, classifies it and     *)
(* posts to /api/reward.                                                   *)
(***************************************************************************)
EXTENDS Integers, Sequences, FiniteSets, Bags, TLC

\* ------------------------------------------------------------------ bounds
MaxTokens == 2      \* reward_token rows that POST /api/reward may insert
MaxReqs == 2        \* redemption requests (redeem_reward / scan) in one run
MaxClock == 1       \* datetime.utcnow() returns a value in 0..MaxClock
NumUsers == 2       \* rows of the user table (registered accounts)
MaxLines == 2       \* lines the serial driver buffers for the intake agent

\* ------------------------------------------------------- program constants
BottlePoints == 100
PaperPoints == 50

NULL == -1                       \* a nullable column holding NULL / None
Anonymous == 0                   \* current_user of a request without a login
UserIds == 1..NumUsers

\* The value of app.config["API_TOKEN"].
API_TOKEN == "changeme"
\* X-API-KEY headers a client may send; NoHeader is headers.get() -> None.
NoHeader == "<none>"
ApiKeys == {NoHeader, "changeme", "wrong"}

\* ------------------------------------------------------------ token values
\* A token string: uuid4().hex number `id`, possibly surrounded by white
\* space.  id 0 is the empty string, id MaxTokens + 1 a well-formed string
\* that uuid4() never returned.
TokenStr(id, pad) == [id |-> id, pad |-> pad]
EmptyStr == TokenStr(0, FALSE)
UnknownId == MaxTokens + 1
TokenInputs ==
    {TokenStr(i, FALSE) : i \in (0..MaxTokens) \cup {UnknownId}}
        \cup {TokenStr(1, TRUE)}

\* str.strip()
Strip(s) == [s EXCEPT !.pad = FALSE]

\* ---------------------------------------------------------------- strings
\* Material names as sequences of characters, so that str.lower() is
\* computed character by character.
Upper == <<"B", "O", "T", "L", "E", "P", "A", "R", "G", "S">>
Lowercase == <<"b", "o", "t", "l", "e", "p", "a", "r", "g", "s">>

LowerChar(c) ==
    IF \E i \in 1..Len(Upper) : Upper[i] = c
    THEN Lowercase[CHOOSE i \in 1..Len(Upper) : Upper[i] = c]
    ELSE c

\* str.lower()
Lower(s) == [i \in 1..Len(s) |-> LowerChar(s[i])]

bottle == <<"b", "o", "t", "t", "l", "e">>
paper == <<"p", "a", "p", "e", "r">>
MaterialStrings ==
    { bottle, paper,
      <<"P", "a", "p", "e", "r">>,
      <<"g", "l", "a", "s", "s">> }

\* JSON values of the "material" member of the request body.
JStr(s) == [type |-> "str", str |-> s, num |-> 0]
JNum(n) == [type |-> "num", str |-> <<>>, num |-> n]
JNull == [type |-> "null", str |-> <<>>, num |-> 0]
JAbsent == [type |-> "absent", str |-> <<>>, num |-> 0]
MaterialValues == {JStr(s) : s \in MaterialStrings} \cup {JNum(5), JNull, JAbsent}

\* request.get_json(silent=True): nothing parsable, a JSON object with the
\* given "material" member, or a JSON array.
NoBody == [kind |-> "none", material |-> JAbsent]
JObject(m) == [kind |-> "object", material |-> m]
JArray == [kind |-> "array", material |-> JAbsent]
Payloads == {NoBody, JArray} \cup {JObject(m) : m \in MaterialValues}

\* Python truthiness of a JSON value.
Truthy(v) ==
    CASE v.type = "str" -> Len(v.str) > 0
      [] v.type = "num" -> v.num # 0
      [] OTHER -> FALSE

\* ------------------------------------------------------------------ state
VARIABLES
    reward_token,   \* the reward_token table: a sequence of rows, row i has id i
    user_points,    \* the user table: the points column of every account
    sessions,       \* the redemption requests in progress: a bag of their sessions
    started,        \* how many redemption requests have arrived
    response,       \* the response just sent and not yet read by its client
    tally,          \* per reward row: how many redemptions reported success / already used
    credited        \* per reward row: the net change its redemptions made to balances

\* The files of static/qr and what GET /reward/<token>/qrcode has served.
VARIABLES
    qr,             \* per token string: the URL its <token>.png encodes, NoUrl for no file
    served          \* per token string: the URL of the last image served for it

\* The intake agent (arduino_listener.py) and its surroundings.
VARIABLES
    api_token,      \* the agent's API_TOKEN (ECOBIN_API_TOKEN in its environment)
    ser,            \* the serial port: "none" not opened, "open" usable, "stale" lost
    port,           \* whether the serial device is present
    rx,             \* the lines the serial driver has buffered
    pc,             \* the agent's position in main()
    frame,          \* main's local frame
    main_material,  \* main's local material
    main_reward,    \* main's local reward
    cycle           \* the current trigger's cycle: POSTs sent and tokens minted in it

app == <<reward_token, user_points, sessions, started, response, tally, credited>>
files == <<qr, served>>
listener == <<api_token, ser, port, rx, pc, frame, main_material, main_reward, cycle>>
vars == <<app, files, listener>>

\* datetime.utcnow(): wall-clock time, which is not monotonic.
utcnow == 0..MaxClock

\* A row of RewardToken as api_reward inserts it: the column defaults give
\* redeemed = False and NULL in redeemed_at and redeemed_by_id.
RewardToken(id, token, material, points) ==
    [ id |-> id, token |-> token, material |-> material, points |-> points,
      redeemed |-> FALSE, redeemed_at |-> NULL, redeemed_by_id |-> NULL ]

RowIds == 1..Len(reward_token)

\* RewardToken.query.filter_by(token=...).first(): the id of the row holding
\* the token string, 0 for None.
FindByToken(token) ==
    IF \E i \in RowIds : reward_token[i].token = token
    THEN CHOOSE i \in RowIds : reward_token[i].token = token
    ELSE 0

\* uuid4().hex: some well-formed token string; nothing in uuid4 looks at the
\* table, so it may be one that an earlier call returned.
uuid4 == {TokenStr(i, FALSE) : i \in 1..MaxTokens}

\* A table whose token column carries no UNIQUE constraint.
NoUniqueConstraint(token) == FALSE

\* token = db.Column(..., unique=True): the INSERT of a token string that a
\* row already holds fails with IntegrityError.
IntegrityError(token) == FindByToken(token) # 0

\* ------------------------------------------------------------------- URLs
\* The host of the agent's API_URL, and the hosts a browser may reach the
\* application under.
API_URL_HOST == "localhost:5000"
Hosts == {API_URL_HOST, "ecobin.example"}

\* url_for("reward_details", token=..., _external=True): no SERVER_NAME is
\* configured, so the URL is built on the host of the request at hand.
redeem_url(host, token) == [host |-> host, path |-> "/reward/", token |-> token]
NoUrl == [host |-> "", path |-> "", token |-> EmptyStr]

\* ------------------------------------------------------------- responses
\* What a handler answers: the HTTP status; for a page, the flashed message
\* (category and text) and the redirect target; for /api/reward and
\* /reward/<token>, the token data shown.
Response(status, category, message, location, token, material, points, redeemed) ==
    [ status |-> status, category |-> category, message |-> message, location |-> location,
      token |-> token, material |-> material, points |-> points, redeemed |-> redeemed,
      url |-> NoUrl ]
Page(status, category, message, location) ==
    Response(status, category, message, location, EmptyStr, <<>>, 0, FALSE)
Data(status, token, material, points, redeemed) ==
    Response(status, "", "", "", token, material, points, redeemed)
\* A response that carries a URL: redeem_url of /api/reward's JSON, or the
\* URL that the image sent by send_file encodes.
WithUrl(resp, url) == [resp EXCEPT !.url = url]
NoResponse == Page(0, "", "", "")

\* login_required without a logged-in user: redirect to login_view.
LoginRedirect == Page(302, "message", "Please log in to access this page.", "login")
\* scan: "Введите код для начисления баллов."
ScanEmpty == Page(200, "danger", "Enter the code to credit points.", "")
\* scan: "Код не найден."
ScanNotFound == Page(200, "danger", "Code not found.", "")
\* scan: "Этот код уже использован."
ScanAlready == Page(200, "warning", "This code is already used.", "")
\* scan: "Начислено {points} баллов за {material}."
ScanSuccess(reward) ==
    Response(302, "success", "Credited points for material.", "dashboard",
             EmptyStr, reward.material, reward.points, FALSE)
\* redeem_reward: first_or_404()
RedeemNotFound == Page(404, "", "", "")
\* redeem_reward: "Этот код уже был использован."
RedeemAlready == Page(302, "warning", "This code has already been used.", "dashboard")
\* redeem_reward: "Вы получили {points} баллов!"
RedeemSuccess(reward) ==
    Response(302, "success", "You received points!", "dashboard",
             EmptyStr, <<>>, reward.points, FALSE)

AlreadyResponse(endpoint) == IF endpoint = "scan" THEN ScanAlready ELSE RedeemAlready
\* A scan that flashes the same message for an unknown code as for a used one.
NotFoundAsAlready(endpoint) == IF endpoint = "scan" THEN ScanAlready ELSE RedeemNotFound

NotFoundResponse(endpoint) == IF endpoint = "scan" THEN ScanNotFound ELSE RedeemNotFound
SuccessResponse(endpoint, reward) ==
    IF endpoint = "scan" THEN ScanSuccess(reward) ELSE RedeemSuccess(reward)

\* --------------------------------------------------------------- requests
Endpoints == {"redeem_reward", "scan"}

\* The session of a redemption request that has loaded current_user and is
\* about to look the token up.
Session(endpoint, user, token) ==
    [ pc |-> "query", endpoint |-> endpoint, user |-> user, token |-> token,
      reward |-> 0, points |-> user_points[user], redeemed_at |-> NULL ]

Running == BagToSet(sessions)
Leave(s) == sessions (-) SetToBag({s})
Become(s, t) == Leave(s) (+) SetToBag({t})

NoTally == [success |-> 0, already |-> 0]
\* None in the agent's locals frame and material.
NoFrame == [blue_ratio |-> NULL, mean_intensity |-> NULL]
NoMaterial == <<>>
\* The cycle of the current trigger: what capture_frame gave, how many
\* POSTs request_reward sent, how many rows they inserted.
NoCycle == [captured |-> "none", sent |-> 0, minted |-> 0]

\* No response is on its way: a response is read by the client that waits
\* for it before the model takes its next step.  Responses are outputs that
\* no handler reads, so this orders the steps of the handlers in no way.
Ready == response = NoResponse

\* The database after setup_database() and an empty static/qr.
InitApp ==
    /\ reward_token = <<>>
    /\ user_points = [u \in UserIds |-> 0]
    /\ sessions = EmptyBag
    /\ started = 0
    /\ response = NoResponse
    /\ tally = [i \in 1..MaxTokens |-> NoTally]
    /\ credited = [i \in 1..MaxTokens |-> 0]
    /\ qr = [i \in 1..MaxTokens |-> NoUrl]
    /\ served = [i \in 1..MaxTokens |-> NoUrl]

\* The intake agent before main() has run a statement.
InitAgent ==
    /\ ser = "none"
    /\ rx = <<>>
    /\ pc = "start"
    /\ frame = NoFrame
    /\ main_material = NoMaterial
    /\ main_reward = NoResponse
    /\ cycle = NoCycle

Init ==
    /\ InitApp
    /\ InitAgent
    /\ api_token = API_TOKEN
    /\ port = TRUE

\* ---------------------------------------------------- POST /api/reward
\* A credential check that only asks for the header to be present.
AuthorizedIfPresent(api_key) == api_key # NoHeader

\* api_key != app.config["API_TOKEN"], negated.
Authorized(api_key) == api_key = API_TOKEN

\* request.get_json(silent=True) or {} followed by payload.get("material"),
\* or "", .lower(): the material string, or AttributeError when the value
\* at hand has no such attribute (the exception is answered with a 500).
AttributeError == <<"AttributeError">>

MaterialOf(payload) ==
    IF payload.kind = "array" THEN AttributeError
    ELSE IF ~Truthy(payload.material) THEN <<>>
    ELSE IF payload.material.type # "str" THEN AttributeError
    ELSE Lower(payload.material.str)

\* A tariff that pays the first token of the table more than the later ones.
TariffByOrder(material) == IF Len(reward_token) = 0 THEN BottlePoints ELSE PaperPoints

\* The tariff: 100 if material == "bottle" else 50.
Tariff(material) == IF material = bottle THEN BottlePoints ELSE PaperPoints

\* build_qr_code: qrcode.make(redeem_url) saved as <token_value>.png.
build_qr_code(token_value, url) == [qr EXCEPT ![token_value.id] = url]

\* api_reward: the credential check, the material check, the INSERT of one
\* unredeemed row with the tariff's points, and the QR image of its URL.
api_reward(api_key, payload) ==
    /\ Ready
    /\ IF ~Authorized(api_key) THEN
           /\ response' = Data(401, EmptyStr, <<>>, 0, FALSE)
           /\ UNCHANGED <<reward_token, qr>>
       ELSE IF MaterialOf(payload) = AttributeError THEN
           /\ response' = Data(500, EmptyStr, <<>>, 0, FALSE)
           /\ UNCHANGED <<reward_token, qr>>
       ELSE IF MaterialOf(payload) \notin {bottle, paper} THEN
           /\ response' = Data(400, EmptyStr, <<>>, 0, FALSE)
           /\ UNCHANGED <<reward_token, qr>>
       ELSE
           \E token_value \in uuid4 :
               LET material == MaterialOf(payload)
                   points == Tariff(material)
                   url == redeem_url(API_URL_HOST, token_value)
               IN  /\ Len(reward_token) < MaxTokens
                   /\ IF IntegrityError(token_value) THEN
                          /\ response' = Data(500, EmptyStr, <<>>, 0, FALSE)
                          /\ UNCHANGED <<reward_token, qr>>
                      ELSE
                          /\ reward_token' = Append(reward_token,
                                RewardToken(Len(reward_token) + 1, token_value,
                                            material, points))
                          /\ qr' = build_qr_code(token_value, url)
                          /\ response' =
                                WithUrl(Data(200, token_value, material, points, FALSE), url)
    /\ UNCHANGED <<user_points, sessions, started, tally, credited, served>>

\* ---------------------------------------------------- GET /reward/<token>
\* reward_details: a read-only lookup.
reward_details(token) ==
    LET reward == FindByToken(token)
    IN  /\ Ready
        /\ response' =
              IF reward = 0 THEN Page(404, "", "", "")
              ELSE Data(200, token, reward_token[reward].material,
                        reward_token[reward].points, reward_token[reward].redeemed)
        /\ UNCHANGED <<reward_token, user_points, sessions, started, tally, credited, files>>

\* ------------------------------- POST /reward/<token>/redeem, POST /scan
\* The request arrives: login_required loads current_user (its points are
\* read into the session here); scan strips the form field and rejects an
\* empty one.
BeginRequest(endpoint, user, input) ==
    /\ Ready
    /\ started < MaxReqs
    /\ started' = started + 1
    /\ endpoint = "redeem_reward" => input # EmptyStr
    /\ LET token == IF endpoint = "scan" THEN Strip(input) ELSE input
       IN  IF user = Anonymous THEN
               /\ response' = LoginRedirect
               /\ UNCHANGED sessions
           ELSE IF endpoint = "scan" /\ token = EmptyStr THEN
               /\ response' = ScanEmpty
               /\ UNCHANGED sessions
           ELSE
               /\ sessions' = sessions (+) SetToBag({Session(endpoint, user, token)})
               /\ UNCHANGED response
    /\ UNCHANGED <<reward_token, user_points, tally, credited, files>>

\* A lookup that takes every row it finds for unredeemed.
IsRedeemedNever(reward) == FALSE

\* reward.redeemed, as the session read it.
IsRedeemed(reward) == reward_token[reward].redeemed

\* RewardToken.query.filter_by(token=...).first(), the two checks on the
\* result, and the changes to the session's objects: redeemed_at = utcnow(),
\* current_user.points += reward.points.
Query(s) ==
    /\ Ready
    /\ s \in Running
    /\ s.pc = "query"
    /\ LET reward == FindByToken(s.token)
       IN  IF reward = 0 THEN
               /\ sessions' = Leave(s)
               /\ response' = NotFoundResponse(s.endpoint)
               /\ UNCHANGED tally
           ELSE IF IsRedeemed(reward) THEN
               /\ sessions' = Leave(s)
               /\ response' = AlreadyResponse(s.endpoint)
               /\ tally' = [tally EXCEPT ![reward].already = @ + 1]
           ELSE
               /\ \E t \in utcnow :
                     sessions' = Become(s, [s EXCEPT !.pc = "commit",
                                                     !.reward = reward,
                                                     !.redeemed_at = t,
                                                     !.points = @ + reward_token[reward].points])
               /\ UNCHANGED <<response, tally>>
    /\ UNCHANGED <<reward_token, user_points, started, credited, files>>

\* An UPDATE that leaves redeemed_at out.
RedeemedWithoutTime(row, redeemed_at, redeemed_by) ==
    [row EXCEPT !.redeemed = TRUE, !.redeemed_by_id = redeemed_by]

\* An UPDATE that flips the flag instead of setting it.
RedeemedToggled(row, redeemed_at, redeemed_by) ==
    [row EXCEPT !.redeemed = ~@, !.redeemed_at = redeemed_at, !.redeemed_by_id = redeemed_by]

\* An UPDATE that records the anonymous user as the redeemer.
RedeemedByAnonymous(row, redeemed_at, redeemed_by) ==
    [row EXCEPT !.redeemed = TRUE, !.redeemed_at = redeemed_at, !.redeemed_by_id = Anonymous]

\* UPDATE reward_token SET redeemed, redeemed_at, redeemed_by_id WHERE id = ...
Redeemed(row, redeemed_at, redeemed_by) ==
    [row EXCEPT !.redeemed = TRUE, !.redeemed_at = redeemed_at, !.redeemed_by_id = redeemed_by]

\* db.session.commit(): one transaction with the UPDATE of the reward row
\* and UPDATE user SET points = <the session's value> WHERE id = ...
Commit(s) ==
    /\ Ready
    /\ s \in Running
    /\ s.pc = "commit"
    /\ reward_token' = [reward_token EXCEPT
                           ![s.reward] = Redeemed(@, s.redeemed_at, s.user)]
    /\ user_points' = [user_points EXCEPT ![s.user] = s.points]
    /\ credited' = [credited EXCEPT ![s.reward] = @ + s.points - user_points[s.user]]
    /\ tally' = [tally EXCEPT ![s.reward].success = @ + 1]
    /\ response' = SuccessResponse(s.endpoint, reward_token[s.reward])
    /\ sessions' = Leave(s)
    /\ UNCHANGED <<started, files>>

\* Some request in progress takes its next step.
Querying == \E s \in Running : Query(s)
Committing == \E s \in Running : Commit(s)

\* The client reads the response (return redirect / render_template /
\* jsonify / abort).
Receive ==
    /\ ~Ready
    /\ response' = NoResponse
    /\ UNCHANGED <<reward_token, user_points, sessions, started, tally, credited, files>>

\* The application serving its clients; the intake agent is not running.
Next ==
    \/ \E k \in ApiKeys, p \in Payloads : api_reward(k, p) /\ UNCHANGED listener
    \/ \E t \in TokenInputs : reward_details(t) /\ UNCHANGED listener
    \/ \E e \in Endpoints, u \in UserIds \cup {Anonymous}, t \in TokenInputs :
          BeginRequest(e, u, t) /\ UNCHANGED listener
    \/ Querying /\ UNCHANGED listener
    \/ Committing /\ UNCHANGED listener
    \/ Receive /\ UNCHANGED listener

Spec == Init /\ [][Next]_vars

\* --------------------------------------------- GET /reward/<token>/qrcode
\* serve_qr: first_or_404, then the image file of the token, generated from
\* this request's URL when static/qr holds none.
serve_qr(host, token) ==
    LET found == FindByToken(token)
        url == redeem_url(host, token)
        stored == IF qr[token.id] = NoUrl THEN build_qr_code(token, url) ELSE qr
    IN  /\ Ready
        /\ IF found = 0 THEN
               /\ response' = Page(404, "", "", "")
               /\ UNCHANGED <<qr, served>>
           ELSE
               /\ qr' = stored
               /\ response' = WithUrl(Page(200, "", "", ""), stored[token.id])
               /\ served' = [served EXCEPT ![token.id] = stored[token.id]]
        /\ UNCHANGED <<reward_token, user_points, sessions, started, tally, credited>>

\* A file of static/qr goes missing (the directory is cleared, the
\* application is deployed afresh beside its database).
LoseImage(token) ==
    /\ qr[token.id] # NoUrl
    /\ qr' = [qr EXCEPT ![token.id] = NoUrl]
    /\ UNCHANGED <<app, served>>

\* The application issuing tokens and serving their QR images.
QrNext ==
    \/ \E k \in ApiKeys, p \in Payloads : api_reward(k, p) /\ UNCHANGED listener
    \/ \E h \in Hosts, t \in TokenInputs : serve_qr(h, t) /\ UNCHANGED listener
    \/ \E t \in uuid4 : LoseImage(t) /\ UNCHANGED listener
    \/ Receive /\ UNCHANGED listener

QrSpec == Init /\ [][QrNext]_vars

\* ================================================= src/arduino_listener.py
\* ------------------------------------------------------- text and frames
RECURSIVE LStrip(_)
RECURSIVE RStrip(_)
Whitespace == {" ", "\n"}
LStrip(s) == IF s # <<>> /\ Head(s) \in Whitespace THEN LStrip(Tail(s)) ELSE s
RStrip(s) ==
    IF s # <<>> /\ s[Len(s)] \in Whitespace THEN RStrip(SubSeq(s, 1, Len(s) - 1)) ELSE s
\* str.strip() of a line of text
StripChars(s) == RStrip(LStrip(s))

\* SENSOR_TRIGGER_VALUE, and the lines the Arduino may write.
SENSOR_TRIGGER_VALUE == <<"1">>
Lines == { <<"1", "\n">>, <<"0", "\n">>, <<"\n">> }

\* What the operator may type at the prompt of input().
OperatorInputs == { <<>>, <<"p">>, <<"P", " ">>, paper, bottle, <<"g", "l", "a", "s", "s">> }

\* A frame, by the two measures classify_material takes of it: the share
\* of blue pixels (in percent) and the mean brightness.
Frames == [blue_ratio : {5, 20}, mean_intensity : {100, 200}]
\* blue_ratio > 0.1 (in percent) and mean_intensity > 150
BlueRatio == 10
MeanIntensity == 150

\* classify_material up to the prompt: the material, or NoMaterial when
\* neither measure decides.
Heuristic(f) ==
    IF f.blue_ratio > BlueRatio THEN bottle
    ELSE IF f.mean_intensity > MeanIntensity THEN paper
    ELSE NoMaterial

\* classify_material after the prompt: "bottle" unless the answer is paper / p.
Fallback(typed) ==
    IF Lower(StripChars(typed)) \notin {paper, <<"p">>} THEN bottle ELSE paper

\* The API_TOKEN values the agent may be configured with.
AgentTokens == {API_TOKEN, "wrong"}

ListenerInit ==
    /\ InitApp
    /\ InitAgent
    /\ api_token \in AgentTokens
    /\ port \in BOOLEAN

\* ------------------------------------------------------------------ main
\* wait_for_trigger(): serial.Serial(...) opens the port; SerialException
\* ends the process with sys.exit(1).
Open ==
    /\ pc = "start"
    /\ IF port THEN ser' = "open" /\ pc' = "read"
               ELSE ser' = ser /\ pc' = "exited"
    /\ UNCHANGED <<app, files, api_token, port, rx, frame, main_material, main_reward, cycle>>

\* ser.readline().decode().strip() and the two tests on the line.  With
\* nothing buffered readline() times out, the line is empty and the loop
\* comes back here.  A trigger starts a cycle.
ReadLine ==
    /\ pc = "read"
    /\ IF ser # "open" THEN
           /\ pc' = "backoff"
           /\ UNCHANGED <<rx, cycle>>
       ELSE
           /\ rx # <<>>
           /\ rx' = Tail(rx)
           /\ LET line == StripChars(Head(rx))
              IN  IF line = <<>> \/ line # SENSOR_TRIGGER_VALUE
                  THEN UNCHANGED <<pc, cycle>>
                  ELSE pc' = "capture" /\ cycle' = NoCycle
    /\ UNCHANGED <<app, files, api_token, ser, port, frame, main_material, main_reward>>

\* except serial.SerialException: time.sleep(1); continue
Backoff ==
    /\ pc = "backoff"
    /\ pc' = "read"
    /\ UNCHANGED <<app, files, api_token, ser, port, rx, frame, main_material, main_reward, cycle>>

\* A loop that goes on to classify whatever capture_frame returned.
FrameIsNoneNever(f) == FALSE

\* frame is None
FrameIsNone(f) == f = NoFrame

\* frame = capture_frame(): None when the camera does not open or gives no
\* picture; then `continue`.
Capture ==
    /\ pc = "capture"
    /\ \E f \in Frames \cup {NoFrame} :
          /\ frame' = f
          /\ cycle' = [cycle EXCEPT !.captured = IF f = NoFrame THEN "failed" ELSE "ok"]
          /\ pc' = IF FrameIsNone(f) THEN "read" ELSE "classify"
    /\ UNCHANGED <<app, files, api_token, ser, port, rx, main_material, main_reward>>

\* classify_material(frame) up to the prompt (cv2.cvtColor raises on None).
Classify ==
    /\ pc = "classify"
    /\ IF frame = NoFrame THEN
           /\ pc' = "crashed"
           /\ UNCHANGED main_material
       ELSE IF Heuristic(frame) # NoMaterial THEN
           /\ main_material' = Heuristic(frame)
           /\ pc' = "request"
       ELSE
           /\ pc' = "input"
           /\ UNCHANGED main_material
    /\ UNCHANGED <<app, files, api_token, ser, port, rx, frame, main_reward, cycle>>

\* input(...) returns what the operator typed.
OperatorInput(typed) ==
    /\ pc = "input"
    /\ main_material' = Fallback(typed)
    /\ pc' = "request"
    /\ UNCHANGED <<app, files, api_token, ser, port, rx, frame, main_reward, cycle>>

\* input(...) on a closed standard input raises EOFError, which nothing
\* catches: finally closes the port and the process ends.
EndOfInput ==
    /\ pc = "input"
    /\ pc' = "crashed"
    /\ ser' = "none"
    /\ UNCHANGED <<app, files, api_token, port, rx, frame, main_material, main_reward, cycle>>

\* A client that posts again after a failed request.
AfterFailureRetry == "request"

\* except requests.RequestException: print; return None.  main goes on to
\* time.sleep(0.5).
AfterFailure == "sleep"

\* requests.post(...) that does not reach the server (ConnectionError).
PostFails ==
    /\ pc = "request"
    /\ cycle' = [cycle EXCEPT !.sent = @ + 1]
    /\ main_reward' = NoResponse
    /\ pc' = AfterFailure
    /\ UNCHANGED <<app, files, api_token, ser, port, rx, frame, main_material>>

\* requests.post(API_URL, json={"material": material}, headers={"X-API-KEY":
\* API_TOKEN}): the application handles the request.
Post ==
    /\ pc = "request"
    /\ api_reward(api_token, JObject(JStr(main_material)))
    /\ cycle' = [cycle EXCEPT !.sent = @ + 1,
                              !.minted = @ + Len(reward_token') - Len(reward_token)]
    /\ pc' = "await"
    /\ UNCHANGED <<api_token, ser, port, rx, frame, main_material, main_reward>>

\* The response arrives: raise_for_status() raises for a 4xx / 5xx status,
\* otherwise request_reward returns response.json().
Reply ==
    /\ pc = "await"
    /\ Receive
    /\ IF response.status >= 400
       THEN main_reward' = NoResponse /\ pc' = AfterFailure
       ELSE main_reward' = response /\ pc' = "sleep"
    /\ UNCHANGED <<api_token, ser, port, rx, frame, main_material, cycle>>

\* timeout=10 expires before the response arrives (ReadTimeout): whatever
\* the application did stays done.
Timeout ==
    /\ pc = "await"
    /\ Receive
    /\ main_reward' = NoResponse
    /\ pc' = AfterFailure
    /\ UNCHANGED <<api_token, ser, port, rx, frame, main_material, cycle>>

\* if reward: print(...); time.sleep(0.5); back to the head of the loop.
\* The locals are dead until the next cycle assigns them.
Sleep ==
    /\ pc = "sleep"
    /\ pc' = "read"
    /\ frame' = NoFrame
    /\ main_material' = NoMaterial
    /\ main_reward' = NoResponse
    /\ UNCHANGED <<app, files, api_token, ser, port, rx, cycle>>

\* ---------------------------------------------------------- surroundings
\* A driver that hands a trigger to the agent at once, whatever it is doing.
ArriveInterrupts(line) ==
    /\ ser = "open" /\ port
    /\ pc \notin {"start", "exited", "crashed"}
    /\ Len(rx) < MaxLines
    /\ rx' = Append(rx, line)
    /\ IF StripChars(line) = SENSOR_TRIGGER_VALUE
       THEN pc' = "capture" /\ cycle' = NoCycle
       ELSE UNCHANGED <<pc, cycle>>
    /\ UNCHANGED <<app, files, api_token, ser, port, frame, main_material, main_reward>>

\* The Arduino writes a line: the serial driver buffers it until readline()
\* takes it, whatever the agent is doing.
Arrive(line) ==
    /\ ser = "open" /\ port
    /\ Len(rx) < MaxLines
    /\ rx' = Append(rx, line)
    /\ UNCHANGED <<app, files, api_token, ser, port, pc, frame, main_material, main_reward, cycle>>

\* The serial device is unplugged: an open port is lost.
Unplug ==
    /\ port
    /\ port' = FALSE
    /\ ser' = IF ser = "open" THEN "stale" ELSE ser
    /\ UNCHANGED <<app, files, api_token, rx, pc, frame, main_material, main_reward, cycle>>

\* The serial device is plugged in again: the Serial object the agent
\* holds may work again or may not (nothing in main reopens it).
Plug ==
    /\ ~port
    /\ port' = TRUE
    /\ ser' \in {ser} \cup (IF ser = "stale" THEN {"open"} ELSE {})
    /\ UNCHANGED <<app, files, api_token, rx, pc, frame, main_material, main_reward, cycle>>

\* The intake agent, its surroundings and the application answering it.
ListenerNext ==
    \/ Open
    \/ ReadLine
    \/ Backoff
    \/ Capture
    \/ Classify
    \/ \E typed \in OperatorInputs : OperatorInput(typed)
    \/ EndOfInput
    \/ PostFails
    \/ Post
    \/ Reply
    \/ Timeout
    \/ Sleep
    \/ \E line \in Lines : Arrive(line)
    \/ Unplug
    \/ Plug

ListenerSpec == ListenerInit /\ [][ListenerNext]_vars

\* ================================================================ claims
RECURSIVE SumPoints(_)
\* The sum of the points of a set of reward rows (given by their ids).
SumPoints(ids) ==
    IF ids = {} THEN 0
    ELSE LET i == CHOOSE j \in ids : TRUE
         IN  reward_token[i].points + SumPoints(ids \ {i})

\* No redemption request for row i's token is in progress.
NoneRunningFor(i) == \A s \in Running : s.token # reward_token[i].token
\* The redemption requests for row i's token that have been answered.
Answered(i) == tally[i].success + tally[i].already

\* C1: when the N >= 1 redemption requests made against an issued token
\* have all been answered, exactly one of them has reported success and the
\* other N - 1 have reported "already redeemed".
C1_ExactlyOneSuccess ==
    \A i \in RowIds :
        (NoneRunningFor(i) /\ Answered(i) >= 1) =>
            (tally[i].success = 1 /\ tally[i].already = Answered(i) - 1)

\* C2: when the redemption requests made against a token have all been
\* answered, the balances have changed on its behalf by exactly its points.
C2_CreditedOnce ==
    \A i \in RowIds :
        (NoneRunningFor(i) /\ Answered(i) >= 1) => credited[i] = reward_token[i].points

\* C3: in every committed state each account's balance is the sum of the
\* points of the tokens whose redeemed_by is that account.
C3_BalanceIsSumOfRedeemed ==
    \A u \in UserIds :
        user_points[u] = SumPoints({i \in RowIds : reward_token[i].redeemed_by_id = u})

\* C4: a row with redeemed = false has neither redeemed_at nor redeemed_by,
\* a row with redeemed = true has both.
C4_RedeemedFieldsTogether ==
    \A i \in RowIds :
        /\ ~reward_token[i].redeemed =>
              (reward_token[i].redeemed_at = NULL /\ reward_token[i].redeemed_by_id = NULL)
        /\ reward_token[i].redeemed =>
              (reward_token[i].redeemed_at # NULL /\ reward_token[i].redeemed_by_id # NULL)
\* A redeemed and an unredeemed row side by side.
C4_Witness ==
    \E i, j \in RowIds : reward_token[i].redeemed /\ ~reward_token[j].redeemed

\* C5: a row whose redeemed flag is true keeps it true in every later state.
C5_RedeemedIsOneWay ==
    [][\A i \in RowIds :
          reward_token[i].redeemed => (i \in DOMAIN reward_token' /\ reward_token'[i].redeemed)]_vars
\* A redeemed row against which a second request has been answered since.
C5_Witness ==
    \E i \in RowIds : reward_token[i].redeemed /\ Answered(i) >= 2

\* C6: once a row is redeemed, no step changes its redeemed_at or redeemed_by.
C6_RedeemedRecordImmutable ==
    [][\A i \in RowIds :
          reward_token[i].redeemed =>
              /\ reward_token'[i].redeemed_at = reward_token[i].redeemed_at
              /\ reward_token'[i].redeemed_by_id = reward_token[i].redeemed_by_id]_vars

\* What the user is told, read off the response.
ReportsNotFound(resp) == resp.status = 404 \/ resp.message = "Code not found."
ReportsAlready(resp) ==
    resp.message \in {"This code is already used.", "This code has already been used."}

\* C7: a redemption request that looks up a token whose redemption is
\* already committed (as does every request that starts after the commit)
\* reports "already redeemed" on either endpoint, ends there, and changes no
\* balance and no token row.
C7_RepeatReportsAlready ==
    [][\A s \in Running :
          (Query(s) /\ FindByToken(s.token) # 0 /\ reward_token[FindByToken(s.token)].redeemed) =>
              /\ ReportsAlready(response')
              /\ sessions' = Leave(s)
              /\ reward_token' = reward_token
              /\ user_points' = user_points]_vars
\* /reward/<token>/redeem has answered "already used" for a token that one
\* earlier request redeemed.
C7_Witness ==
    /\ response = RedeemAlready
    /\ \E i \in RowIds : reward_token[i].redeemed /\ tally[i] = [success |-> 1, already |-> 1]

\* C8: a redemption request for a token string without a row reports "not
\* found", one for a redeemed token reports "already redeemed", no response
\* reports both, and neither changes a token row or a balance.
C8_NotFoundAndAlreadyDistinct ==
    [][\A s \in Running :
          Query(s) =>
              LET reward == FindByToken(s.token)
              IN  /\ reward = 0 =>
                        /\ ReportsNotFound(response') /\ ~ReportsAlready(response')
                        /\ reward_token' = reward_token /\ user_points' = user_points
                  /\ (reward # 0 /\ reward_token[reward].redeemed) =>
                        /\ ReportsAlready(response') /\ ~ReportsNotFound(response')
                        /\ reward_token' = reward_token /\ user_points' = user_points]_vars
\* /scan has answered "code not found" while a redeemed token exists.
C8_Witness ==
    /\ response = ScanNotFound
    /\ \E i \in RowIds : reward_token[i].redeemed

\* C9: POST /api/reward without the header, or with a header that differs
\* from the configured secret, answers 401 and leaves the reward_token table
\* as it is, whatever the body.
C9_UnauthorizedCreatesNothing ==
    [][\A k \in ApiKeys, p \in Payloads :
          (k # API_TOKEN /\ api_reward(k, p)) =>
              (response'.status = 401 /\ reward_token' = reward_token)]_vars
\* A 401 answered when the table already holds a row.
C9_Witness == response.status = 401 /\ Len(reward_token) >= 1

\* The body names one of the two materials of the tariff table (material
\* names are read without regard to case).
NamesTariffMaterial(payload) ==
    /\ payload.kind = "object"
    /\ payload.material.type = "str"
    /\ Lower(payload.material.str) \in {bottle, paper}

\* C10: POST /api/reward with the valid credential and a body that names
\* no material of the tariff table (any other value, a missing one
\* included) answers 400 and creates no row.
C10_UnknownMaterialIs400 ==
    [][\A p \in Payloads :
          (api_reward(API_TOKEN, p) /\ ~NamesTariffMaterial(p)) =>
              (response'.status = 400 /\ reward_token' = reward_token)]_vars

\* The row that a step has appended to the table.
NewRow == reward_token'[Len(reward_token')]

\* C11: every POST /api/reward answered 200 returns and stores 100 points
\* for a bottle and 50 for paper, whatever the table holds, whatever else
\* the request carries and whatever runs beside it; no step changes the
\* points (or the material) of a row that exists.
C11_TariffDeterminism ==
    [][/\ \A k \in ApiKeys, p \in Payloads :
             (api_reward(k, p) /\ response'.status = 200) =>
                 /\ response'.material \in {bottle, paper}
                 /\ response'.material = bottle => response'.points = BottlePoints
                 /\ response'.material = paper => response'.points = PaperPoints
                 /\ Len(reward_token') = Len(reward_token) + 1
                 /\ NewRow.points = response'.points
                 /\ NewRow.material = response'.material
       /\ \A i \in RowIds :
             /\ i \in DOMAIN reward_token'
             /\ reward_token'[i].points = reward_token[i].points
             /\ reward_token'[i].material = reward_token[i].material]_vars
\* A second bottle has just been issued after the first one was redeemed.
C11_Witness ==
    /\ response.status = 200 /\ response.material = bottle
    /\ Len(reward_token) = 2
    /\ reward_token[1].material = bottle /\ reward_token[1].redeemed

\* C12: every POST /api/reward answered 200 appends exactly one row, which
\* is unredeemed and whose token string no earlier row holds; no step
\* removes a row or changes the token string of one.
C12_IssueAddsOneFreshRow ==
    [][/\ \A k \in ApiKeys, p \in Payloads :
             (api_reward(k, p) /\ response'.status = 200) =>
                 /\ Len(reward_token') = Len(reward_token) + 1
                 /\ NewRow.token = response'.token
                 /\ ~NewRow.redeemed
                 /\ NewRow.redeemed_at = NULL /\ NewRow.redeemed_by_id = NULL
                 /\ \A i \in RowIds : reward_token[i].token # NewRow.token
       /\ Len(reward_token') >= Len(reward_token)
       /\ \A i \in RowIds :
             /\ i \in DOMAIN reward_token'
             /\ reward_token'[i].id = reward_token[i].id
             /\ reward_token'[i].token = reward_token[i].token]_vars
\* A token has been issued into a table that holds one already.
C12_Witness ==
    /\ response.status = 200 /\ response.token # EmptyStr /\ Len(reward_token) = 2

\* C13: a redemption request without a logged-in user is answered with the
\* redirect to the login page and changes no row, no balance and starts no
\* session; every redeemed row names a registered account as redeemed_by.
C13_AnonymousNeverRedeems ==
    /\ [](\A i \in RowIds :
             reward_token[i].redeemed => reward_token[i].redeemed_by_id \in UserIds)
    /\ [][\A e \in Endpoints, t \in TokenInputs :
             BeginRequest(e, Anonymous, t) =>
                 /\ response' = LoginRedirect
                 /\ reward_token' = reward_token
                 /\ user_points' = user_points
                 /\ sessions' = sessions]_vars
\* An anonymous request has been turned away while an unredeemed token
\* exists beside a redeemed one.
C13_Witness ==
    /\ response = LoginRedirect
    /\ \E i, j \in RowIds : ~reward_token[i].redeemed /\ reward_token[j].redeemed

\* C14: when capture_frame returns None the loop goes back to reading the
\* serial line with nothing classified and nothing sent, and a POST is only
\* ever sent in a cycle whose capture gave a frame.
C14_FailedCaptureSendsNothing ==
    [][/\ (Capture /\ frame' = NoFrame) =>
             /\ pc' = "read"
             /\ main_material' = main_material
             /\ cycle'.sent = 0
             /\ reward_token' = reward_token
       /\ cycle'.sent > cycle.sent => (frame # NoFrame /\ cycle.captured = "ok")
       /\ cycle.captured = "failed" => cycle'.sent = 0]_vars
\* A capture has failed after an earlier cycle minted a token: the agent is
\* back at the serial line and the failed cycle has sent nothing.
C14_Witness ==
    /\ pc = "read" /\ cycle.captured = "failed" /\ cycle.sent = 0
    /\ Len(reward_token) = 1

\* C15: when neither measure decides and the operator answers the prompt
\* with nothing, the agent sends no POST in that cycle.
C15_NoInputNoMint ==
    [][OperatorInput(<<>>) => pc' # "request"]_vars

\* A request has failed as Unavailable: it did not reach the application,
\* or the application answered 5xx.
Unavailable == pc = "request" \/ (pc = "await" /\ response.status >= 500)

\* C16: the agent is told of an Unavailable failure only after more than
\* one POST has been made for the trigger.
C16_UnavailableIsRetried ==
    [][(Unavailable /\ pc' = "sleep" /\ main_reward' = NoResponse) => cycle'.sent > 1]_vars

\* C17: after a 401, a 400 or a timeout the cycle ends with no reward and
\* without another POST; no cycle sends more than one POST or mints more
\* than one token.
C17_NoSecondRequest ==
    /\ [](cycle.sent <= 1 /\ cycle.minted <= 1)
    /\ [][((Reply /\ response.status \in {400, 401}) \/ Timeout) =>
               (pc' = "sleep" /\ main_reward' = NoResponse /\ cycle' = cycle)]_vars
\* A cycle that minted a token and lost the answer to a timeout now sleeps
\* with no reward.
C17_Witness ==
    /\ pc = "sleep" /\ main_reward = NoResponse
    /\ cycle.sent = 1 /\ cycle.minted = 1

\* C18: the agent never ends because the serial port failed to open.
C18_NeverExits == pc # "exited"

\* The positions of one cycle, and the positions that may follow each.
CyclePositions == {"capture", "classify", "input", "request", "await", "sleep"}
Follows(p) ==
    CASE p = "start" -> {"read", "exited"}
      [] p = "read" -> {"read", "backoff", "capture"}
      [] p = "backoff" -> {"read"}
      [] p = "capture" -> {"read", "classify"}
      [] p = "classify" -> {"input", "request"}
      [] p = "input" -> {"request", "crashed"}
      [] p = "request" -> {"await", "sleep"}
      [] p = "await" -> {"sleep"}
      [] p = "sleep" -> {"read"}
      [] OTHER -> {}

\* C19: a cycle starts only from the read of the serial line, its steps
\* follow one another in order until it is back there, and a line that
\* arrives meanwhile waits in the buffer without touching the cycle.
C19_CyclesAreSerial ==
    [][/\ pc' # pc => pc' \in Follows(pc)
       /\ (pc' = "capture" /\ pc # "capture") => (pc = "read" /\ cycle' = NoCycle)
       /\ (pc \in CyclePositions /\ Len(rx') > Len(rx)) =>
             /\ rx' = Append(rx, rx'[Len(rx')])
             /\ UNCHANGED <<app, pc, frame, main_material, main_reward, cycle>>]_vars
\* A trigger waits in the buffer while the cycle of an earlier one is at
\* its request.
C19_Witness ==
    /\ pc = "request"
    /\ \E i \in 1..Len(rx) : StripChars(rx[i]) = SENSOR_TRIGGER_VALUE

\* C20: every image served for a token encodes the same URL as the image
\* served for it before, whether it was stored at issuance or generated by
\* the request; a request for a token string without a row answers 404 and
\* leaves static/qr as it is.
C20_QrIdempotence ==
    [][\A h \in Hosts, t \in TokenInputs :
          serve_qr(h, t) =>
              IF FindByToken(t) = 0
              THEN response'.status = 404 /\ qr' = qr
              ELSE /\ response'.status = 200
                   /\ response'.url.token = t
                   /\ served[t.id] # NoUrl => response'.url = served[t.id]]_vars

====
